---- MODULE Spec2Model ----
(***************************************************************************)
(* Model of the admitto resource catalog: the `resources` table of         *)
(* database/schema.sql and database/seed_resources.sql (writes, category   *)
(* check, created_at default), the four listing queries of the frontend    *)
(* pages (home, scholarships, jobs, visa guide), the tag/level filter of   *)
(* the scholarships page, and the documents table with match_documents.    *)
(***************************************************************************)
EXTENDS Integers, Sequences, FiniteSets, TLC

VARIABLES
    resources,   \* rows of the resources table, in insertion (heap) order
    nextId,      \* next value handed out by gen_random_uuid()
    clock,       \* NOW()
    check,       \* the resources_category_check constraint in force
    seedPc,      \* position of seed_resources.sql
    seedStart,   \* start time of the transaction seed_resources.sql opened
    lastWrite,   \* outcome of the most recent INSERT/UPDATE statement
    page,        \* page the client has mounted
    status,      \* state of that page's fetch
    list,        \* resource list the page hands to rendering
    consoleErrors, \* console.error calls made since the page was mounted
    fresh,       \* list is a query result and no write happened since
    prev,        \* result the same query gave just before this page load
    fIn,         \* tag/level filter: input resources
    fNeedle,     \* tag/level filter: needle
    fOut,        \* tag/level filter: outcome
    fPc,         \* tag/level filter: position
    documents,   \* rows of the documents table, in insertion order
    nextDocId,   \* next value of the BIGSERIAL of documents.id
    mQuery,      \* match_documents: query_embedding of the last call
    mThreshold,  \* match_documents: match_threshold of the last call
    mCount,      \* match_documents: match_count of the last call
    mOut,        \* match_documents: rows the last call returned
    mPc,         \* match_documents: position
    readers,     \* concurrent read requests and what they returned
    seedRuns,    \* how many times seed_resources.sql has been started
    card,        \* card rendering: the page and the resource of the card
    shown,       \* card rendering: what the card shows
    dPc,         \* card rendering: position
    tabs         \* scholarships page: the three tabs as rendered

storeVars == <<resources, nextId, clock, check, seedPc, seedStart, lastWrite,
               seedRuns>>
pageVars == <<page, status, list, consoleErrors, fresh, prev>>
filterVars == <<fIn, fNeedle, fOut, fPc>>
vars == <<resources, nextId, clock, check, seedPc, seedStart, lastWrite,
          page, status, list, consoleErrors, fresh, prev,
          fIn, fNeedle, fOut, fPc,
          documents, nextDocId, mQuery, mThreshold, mCount, mOut, mPc,
          readers, seedRuns, card, shown, dPc, tabs>>
matchVars == <<documents, nextDocId, mQuery, mThreshold, mCount, mOut, mPc>>
readVars == <<readers>>
viewVars == <<card, shown, dPc, tabs>>

(*************************** bounds ***************************************)
MaxTabRows == 2
MaxHomeRows == 7
MaxSeedRuns == 2
MaxRows == 2
MaxClock == 1
MaxDocs == 3
MaxCount == 2
MaxReaders == 2

(*************************** text ******************************************)
\* A text value is the sequence of its characters.
sUndergraduate == <<"U","n","d","e","r","g","r","a","d","u","a","t","e">>
sundergraduate == <<"u","n","d","e","r","g","r","a","d","u","a","t","e">>
sgraduate == <<"g","r","a","d","u","a","t","e">>
sdoctoral == <<"d","o","c","t","o","r","a","l">>
sMasters == <<"M","a","s","t","e","r","s">>
sPhD == <<"P","h","D">>
sDoctoralPhD == <<"D","o","c","t","o","r","a","l"," ","(","P","h","D",")">>
sfullyfunded == <<"f","u","l","l","y","-","f","u","n","d","e","d">>
sstudypermit == <<"s","t","u","d","y","-","p","e","r","m","i","t">>
stopranked == <<"t","o","p","-","r","a","n","k","e","d">>
sofficial == <<"o","f","f","i","c","i","a","l">>
sPAL == <<"P","A","L">>
scoop == <<"c","o","-","o","p">>
sjobboard == <<"j","o","b","-","b","o","a","r","d">>
sparttime == <<"p","a","r","t","-","t","i","m","e">>
sofficialguide == <<"o","f","f","i","c","i","a","l","-","g","u","i","d","e">>
sinformation == <<"i","n","f","o","r","m","a","t","i","o","n">>
sjobtypes1 == <<"f","u","l","l","-","t","i","m","e",","," ","p","a","r","t","-","t","i","m","e",","," ","c","o","-","o","p">>
sjobtypes2 == <<"p","a","r","t","-","t","i","m","e",","," ","f","u","l","l","-","t","i","m","e">>
sgovernment == <<"g","o","v","e","r","n","m","e","n","t">>
sprestigious == <<"p","r","e","s","t","i","g","i","o","u","s">>
sresearch == <<"r","e","s","e","a","r","c","h">>
sScholarship == <<"S","c","h","o","l","a","r","s","h","i","p">>
sJobResource == <<"J","o","b"," ","R","e","s","o","u","r","c","e">>
sOfficial == <<"O","f","f","i","c","i","a","l">>
sObjectObject == <<"[","o","b","j","e","c","t"," ","O","b","j","e","c","t","]">>
sFive == <<"5">>
sZero == <<"0">>
strue == <<"t","r","u","e">>
sfalse == <<"f","a","l","s","e">>
sUGMastersPhD == <<"U","n","d","e","r","g","r","a","d","u","a","t","e","/","M","a","s","t","e","r","s","/","P","h","D">>
sempty == <<>>

(*************************** JSON values ***********************************)
\* A JavaScript value as the client sees it: t is its shape, s its characters
\* when it is a string, a its elements when it is an array.
JUndefined == [t |-> "undefined", s |-> <<>>, a |-> <<>>]
JNull == [t |-> "null", s |-> <<>>, a |-> <<>>]
JNumber == [t |-> "number", s |-> <<>>, a |-> <<>>]
JBoolean == [t |-> "boolean", s |-> <<>>, a |-> <<>>]
JObject == [t |-> "object", s |-> <<>>, a |-> <<>>]
JStr(chars) == [t |-> "string", s |-> chars, a |-> <<>>]
JArr(elems) == [t |-> "array", s |-> <<>>, a |-> elems]
\* A number or boolean with its literal, where its value matters.
JNum(chars) == [t |-> "number", s |-> chars, a |-> <<>>]
JBool(chars) == [t |-> "boolean", s |-> chars, a |-> <<>>]
\* An array element (one level of nesting is enough for TEXT[] and level).
EStr(chars) == [t |-> "string", s |-> chars]
ENum == [t |-> "number", s |-> <<>>]
ENull == [t |-> "null", s |-> <<>>]

\* The metadata column (JSONB): t is the shape of the whole value; level,
\* job_type and resource_type are the values of these keys when it is an
\* object (JUndefined when the key is missing).
MetaKeys(lvl, jt, rt) ==
    [t |-> "object", level |-> lvl, job_type |-> jt, resource_type |-> rt]
MetaNull == [t |-> "null", level |-> JUndefined, job_type |-> JUndefined,
             resource_type |-> JUndefined]
MetaNumber == [t |-> "number", level |-> JUndefined, job_type |-> JUndefined,
               resource_type |-> JUndefined]
MetaObj(lvl) == MetaKeys(lvl, JUndefined, JUndefined)

(*************************** tag/level filter ******************************)
\* The outcome of a property read that throws (TypeError: cannot read
\* properties of null).
JTypeError == [t |-> "TypeError", s |-> <<>>, a |-> <<>>]

\* String.prototype.includes: needle occurs at some offset of str.
StrIncludes(str, needle) ==
    \E i \in 0..(Len(str) - Len(needle)) :
        SubSeq(str, i + 1, i + Len(needle)) = needle

\* Array.prototype.includes with a string needle: some element is that string.
ArrIncludes(arr, needle) ==
    \E i \in 1..Len(arr) : arr[i].t = "string" /\ arr[i].s = needle

\* Mutant: the helper without its Array.isArray branch.
fieldIncludesNoArray(field, needle) ==
    IF field.t = "string" THEN StrIncludes(field.s, needle) ELSE FALSE

\* Mutant: array elements matched by substring, as if the array were joined.
fieldIncludesJoined(field, needle) ==
    IF field.t = "string" THEN StrIncludes(field.s, needle)
    ELSE IF field.t = "array"
         THEN \E i \in 1..Len(field.a) :
                  field.a[i].t = "string" /\ StrIncludes(field.a[i].s, needle)
         ELSE FALSE

\* Mutant: an array matched on its first element only.
fieldIncludesFirst(field, needle) ==
    IF field.t = "string" THEN StrIncludes(field.s, needle)
    ELSE IF field.t = "array"
         THEN field.a # <<>> /\ field.a[1].t = "string" /\ field.a[1].s = needle
         ELSE FALSE

\* fieldIncludes(field, needle), scholarships/page.tsx:40-44.
fieldIncludes(field, needle) ==
    IF field.t = "string" THEN StrIncludes(field.s, needle)
    ELSE IF field.t = "array" THEN ArrIncludes(field.a, needle)
    ELSE FALSE

\* Mutant: s.metadata.level, without the optional chaining.
PlainLevel(metadata) ==
    IF metadata.t \in {"null", "undefined"} THEN JTypeError
    ELSE IF metadata.t = "object" THEN metadata.level
    ELSE JUndefined

\* s.metadata?.level
OptLevel(metadata) ==
    IF metadata.t \in {"null", "undefined"} THEN JUndefined
    ELSE IF metadata.t = "object" THEN metadata.level
    ELSE JUndefined

\* s.metadata?.level throws while the test of a resource is evaluated.
LevelThrows(s) == OptLevel(s.metadata).t = "TypeError"

\* Outcome of Array.prototype.filter: the first throw of the test aborts the
\* whole call, otherwise the kept elements in input order.
Thrown == [threw |-> TRUE, rows |-> <<>>]
Returned(rows) == [threw |-> FALSE, rows |-> rows]

\* The filter of scholarships/page.tsx:46-52 with one needle for both fields.
filterByTagOrLevel(rs, needle) ==
    IF \E i \in 1..Len(rs) : LevelThrows(rs[i]) THEN Thrown
    ELSE Returned(SelectSeq(rs,
             LAMBDA s : \/ fieldIncludes(OptLevel(s.metadata), needle)
                        \/ fieldIncludes(s.tags, needle)))

\* const undergrad, scholarships/page.tsx:46-48.
undergrad(scholarships) ==
    IF \E i \in 1..Len(scholarships) : LevelThrows(scholarships[i]) THEN Thrown
    ELSE Returned(SelectSeq(scholarships,
             LAMBDA s : \/ fieldIncludes(OptLevel(s.metadata), sUndergraduate)
                        \/ fieldIncludes(s.tags, sundergraduate)))

\* Mutant: the Graduate tab without its 'PhD' needle.
graduateWithoutPhD(scholarships) ==
    IF \E i \in 1..Len(scholarships) : LevelThrows(scholarships[i]) THEN Thrown
    ELSE Returned(SelectSeq(scholarships,
             LAMBDA s : \/ fieldIncludes(OptLevel(s.metadata), sMasters)
                        \/ fieldIncludes(s.tags, sgraduate)
                        \/ fieldIncludes(s.tags, sdoctoral)))

\* const graduate, scholarships/page.tsx:49-52.
graduate(scholarships) ==
    IF \E i \in 1..Len(scholarships) : LevelThrows(scholarships[i]) THEN Thrown
    ELSE Returned(SelectSeq(scholarships,
             LAMBDA s : \/ fieldIncludes(OptLevel(s.metadata), sMasters)
                        \/ fieldIncludes(OptLevel(s.metadata), sPhD)
                        \/ fieldIncludes(s.tags, sgraduate)
                        \/ fieldIncludes(s.tags, sdoctoral)))

(*************************** the resources table ***************************)
\* schema.sql:10, the value list of the CHECK on category.
SchemaCategories == {"scholarship", "visa", "job", "accommodation", "general"}
\* seed_resources.sql:6-7, the value list of the re-added CHECK.
SeedCategories ==
    {"scholarship", "visa", "job", "accommodation", "general", "university"}

\* SQL NULL in a TEXT column.
NullText == "<NULL>"
\* A TIMESTAMP WITH TIME ZONE column value: NULL or a point in time.
NullTs == [null |-> TRUE, v |-> 0]
Ts(t) == [null |-> FALSE, v |-> t]

\* The tags column (TEXT[]) as the client receives it.
TagsNull == JNull
Tags(elems) == JArr(elems)

\* The constraint resources_category_check: absent, or a value list.
NoCheck == [inForce |-> FALSE, allowed |-> {}]
Check(values) == [inForce |-> TRUE, allowed |-> values]

\* category IN (...) evaluated on a non-null value.
CheckPasses(chk, c) == (~chk.inForce) \/ c \in chk.allowed

\* category TEXT NOT NULL CHECK (category IN (...)).
Accepts(chk, c) == c # NullText /\ CheckPasses(chk, c)

\* created_at TIMESTAMP WITH TIME ZONE DEFAULT NOW(): the default applies
\* only when the column is omitted; an explicit value, NULL included, is
\* stored as written.
CreatedAt(created, now) ==
    CASE created.kind = "default" -> Ts(now)
      [] created.kind = "null" -> NullTs
      [] OTHER -> Ts(created.v)

\* title TEXT NOT NULL: only NULL is refused, the empty string is a value.
TitleAccepted(title) == title # NullText

\* id UUID ... PRIMARY KEY: no other row of the table has this id.
PkeyAccepted(id, others) == \A k \in 1..Len(others) : others[k].id # id

\* Mutant: the table without its primary key.
RowAcceptedNoPkey(chk, row, others) ==
    TitleAccepted(row.title) /\ Accepts(chk, row.category)

\* The constraints of CREATE TABLE resources, schema.sql:5-20, on a row that
\* an INSERT or UPDATE is about to store next to the rows `others`.
RowAccepted(chk, row, others) ==
    /\ TitleAccepted(row.title)
    /\ Accepts(chk, row.category)
    /\ PkeyAccepted(row.id, others)

\* An id the writer supplies itself; gen_random_uuid() hands out 1, 2, ...
ClientId == 0

\* id UUID DEFAULT gen_random_uuid()
IdOf(idIn, generated) == IF idIn.kind = "default" THEN generated ELSE idIn.v

NoWrite ==
    [op |-> "none", target |-> 0, id |-> 0, title |-> NullText,
     category |-> NullText, accepted |-> FALSE]
Wrote(op, target, row, accepted) ==
    [op |-> op, target |-> target, id |-> row.id, title |-> row.title,
     category |-> row.category, accepted |-> accepted]
NoPrev == [valid |-> FALSE, res |-> <<>>]

\* A text column in an INSERT: left out, NULL, or a value.
TextDefault == [kind |-> "default", v |-> NullText]
TextNull == [kind |-> "null", v |-> NullText]
TextValue(t) == [kind |-> "value", v |-> t]

\* schema.sql:11, country TEXT DEFAULT 'Canada'.
DefaultCountry == "Canada"

\* Mutant: a column without its DEFAULT.
TextOfNoDefault(given, default) ==
    IF given.kind = "value" THEN given.v ELSE NullText

\* The value stored in a text column that has a DEFAULT.
TextOf(given, default) ==
    IF given.kind = "default" THEN default
    ELSE IF given.kind = "null" THEN NullText
    ELSE given.v

\* The row an INSERT statement builds: omitted columns take their defaults,
\* NOW() being the start time of the inserting transaction.
NewRow(inp, generated, now, committed) ==
    [id |-> IdOf(inp.id, generated),
     title |-> inp.title,
     url |-> inp.url,
     country |-> TextOf(inp.country, DefaultCountry),
     category |-> inp.category,
     created_at |-> CreatedAt(inp.created, now),
     last_updated |-> CreatedAt(inp.updated, now),
     tags |-> inp.tags,
     metadata |-> inp.metadata,
     committed |-> committed]

\* INSERT INTO resources (...) VALUES (...), one row, its own transaction.
Insert(inp) ==
    /\ Len(resources) < MaxRows
    /\ LET row == NewRow(inp, nextId, clock, TRUE)
       IN IF RowAccepted(check, row, resources)
          THEN /\ resources' = Append(resources, row)
               /\ nextId' = IF inp.id.kind = "default" THEN nextId + 1
                            ELSE nextId
               /\ lastWrite' = Wrote("insert", 0, row, TRUE)
               /\ fresh' = FALSE
               /\ prev' = NoPrev
          ELSE /\ lastWrite' = Wrote("insert", 0, row, FALSE)
               /\ UNCHANGED <<resources, nextId, fresh, prev>>
    /\ UNCHANGED <<seedRuns, clock, check, seedPc, seedStart, page, status, list,
                   consoleErrors>>
    /\ UNCHANGED filterVars
    /\ UNCHANGED matchVars
    /\ UNCHANGED readVars
    /\ UNCHANGED viewVars

\* SET col = value of an UPDATE statement.
SetCategory(c) == [col |-> "category", text |-> c, ts |-> NullTs, id |-> 0]
SetTitle(t) == [col |-> "title", text |-> t, ts |-> NullTs, id |-> 0]
SetId(i) == [col |-> "id", text |-> NullText, ts |-> NullTs, id |-> i]
SetCreatedAt(t) == [col |-> "created_at", text |-> NullText, ts |-> t, id |-> 0]
SetLastUpdated(t) ==
    [col |-> "last_updated", text |-> NullText, ts |-> t, id |-> 0]

\* The row after SET col = value: the named column changes and nothing else
\* does, the table has no trigger.
Assigned(row, asg) ==
    CASE asg.col = "category" -> [row EXCEPT !.category = asg.text]
      [] asg.col = "title" -> [row EXCEPT !.title = asg.text]
      [] asg.col = "id" -> [row EXCEPT !.id = asg.id]
      [] asg.col = "created_at" -> [row EXCEPT !.created_at = asg.ts]
      [] asg.col = "last_updated" -> [row EXCEPT !.last_updated = asg.ts]

\* The rows of the table other than row i.
Others(store, i) ==
    SubSeq(store, 1, i - 1) \o SubSeq(store, i + 1, Len(store))

\* UPDATE resources SET col = value WHERE id = (the id of row i).
Update(i, asg) ==
    /\ i \in 1..Len(resources)
    /\ resources[i].committed
    /\ LET row == Assigned(resources[i], asg)
       IN IF RowAccepted(check, row, Others(resources, i))
          THEN /\ resources' = [resources EXCEPT ![i] = row]
               /\ lastWrite' = Wrote("update", i, row, TRUE)
               /\ fresh' = FALSE
               /\ prev' = NoPrev
          ELSE /\ lastWrite' = Wrote("update", i, row, FALSE)
               /\ UNCHANGED <<resources, fresh, prev>>
    /\ UNCHANGED <<seedRuns, nextId, clock, check, seedPc, seedStart, page, status,
                   list, consoleErrors>>
    /\ UNCHANGED filterVars
    /\ UNCHANGED matchVars
    /\ UNCHANGED readVars
    /\ UNCHANGED viewVars

\* Time passes.
Tick ==
    /\ clock < MaxClock
    /\ clock' = clock + 1
    /\ UNCHANGED <<seedRuns, resources, nextId, check, seedPc, seedStart, lastWrite>>
    /\ UNCHANGED pageVars
    /\ UNCHANGED filterVars
    /\ UNCHANGED matchVars
    /\ UNCHANGED readVars
    /\ UNCHANGED viewVars

\* seed_resources.sql:4, ALTER TABLE resources DROP CONSTRAINT IF EXISTS.
SeedDropConstraint ==
    /\ seedPc = "start"
    /\ check' = NoCheck
    /\ seedPc' = "dropped"
    /\ seedRuns' = seedRuns + 1
    /\ UNCHANGED <<resources, nextId, clock, seedStart, lastWrite>>
    /\ UNCHANGED pageVars
    /\ UNCHANGED filterVars
    /\ UNCHANGED matchVars
    /\ UNCHANGED readVars
    /\ UNCHANGED viewVars

\* seed_resources.sql:6-7, ALTER TABLE resources ADD CONSTRAINT ... CHECK:
\* the statement fails, and adds nothing, when a stored row violates it.
SeedAddConstraint ==
    /\ seedPc = "dropped"
    /\ check' = IF \A i \in 1..Len(resources) :
                      CheckPasses(Check(SeedCategories), resources[i].category)
                THEN Check(SeedCategories)
                ELSE check
    /\ seedPc' = "step2"
    /\ UNCHANGED <<seedRuns, resources, nextId, clock, seedStart, lastWrite>>
    /\ UNCHANGED pageVars
    /\ UNCHANGED filterVars
    /\ UNCHANGED matchVars
    /\ UNCHANGED readVars
    /\ UNCHANGED viewVars

(*************************** the seed transaction *************************)
\* How many rows of each INSERT statement of seed_resources.sql are modelled.
SeedRowsPerInsert == 2

\* A row of the seed: id and created_at are left to their defaults,
\* last_updated is written as NOW(), country as 'Canada'.
SeedRow(title, url, c, tags, metadata) ==
    [id |-> [kind |-> "default", v |-> 0], title |-> title, category |-> c,
     url |-> url, country |-> TextValue("Canada"),
     created |-> [kind |-> "default", v |-> 0],
     updated |-> [kind |-> "default", v |-> 0],
     tags |-> tags, metadata |-> metadata]

\* seed_resources.sql:16-170, the first rows of INSERT SCHOLARSHIPS.
SeedScholarships ==
    <<SeedRow("Vanier Canada Graduate Scholarships (Vanier CGS)",
              "https://vanier.gc.ca/en/home-accueil.html", "scholarship",
              Tags(<<EStr(sdoctoral), EStr(sfullyfunded)>>),
              MetaObj(JStr(sDoctoralPhD))),
      SeedRow("Lester B. Pearson International Scholarship",
              "https://future.utoronto.ca/pearson/", "scholarship",
              Tags(<<EStr(sundergraduate), EStr(sfullyfunded)>>),
              MetaObj(JStr(sUndergraduate)))>>

\* seed_resources.sql:173-250, the first rows of INSERT UNIVERSITIES.
SeedUniversities ==
    <<SeedRow("University of Toronto - International Student Programs",
              "https://www.utoronto.ca/", "university",
              Tags(<<EStr(stopranked)>>), MetaObj(JUndefined)),
      SeedRow("University of British Columbia (UBC) - International Programs",
              "https://www.ubc.ca/", "university",
              Tags(<<EStr(scoop)>>), MetaObj(JUndefined))>>

\* seed_resources.sql:253-313, the first rows of INSERT VISA RESOURCES.
SeedVisa ==
    <<SeedRow("IRCC - Study Permits Official Guide",
              "https://www.canada.ca/en/immigration-refugees-citizenship/services/study-canada/study-permit.html",
              "visa", Tags(<<EStr(sstudypermit), EStr(sofficial)>>),
              MetaKeys(JUndefined, JUndefined, JStr(sofficialguide))),
      SeedRow("EduCanada - Study Permits and Visas",
              "https://www.educanada.ca/study-etudes/permits-visas-permis.aspx",
              "visa", Tags(<<EStr(sPAL)>>),
              MetaKeys(JUndefined, JUndefined, JStr(sinformation)))>>

\* seed_resources.sql:316-415, the first rows of INSERT JOB RESOURCES.
SeedJobs ==
    <<SeedRow("Job Bank Canada - International Students",
              "https://www.jobbank.gc.ca/", "job", Tags(<<EStr(sofficial)>>),
              MetaKeys(JUndefined, JStr(sjobtypes1), JUndefined)),
      SeedRow("Indeed Canada - International Student Jobs",
              "https://ca.indeed.com/International-Student-jobs", "job",
              Tags(<<EStr(sjobboard)>>),
              MetaKeys(JUndefined, JStr(sjobtypes2), JUndefined))>>

SeedPrefix(rows) ==
    SubSeq(rows, 1, IF Len(rows) < SeedRowsPerInsert THEN Len(rows)
                    ELSE SeedRowsPerInsert)

\* The rows of a multi-row INSERT stored as if each statement committed on
\* its own.
SeedRowsStoredAutocommit(rows, firstId, start) ==
    [k \in 1..Len(rows) |-> NewRow(rows[k], firstId + k - 1, start, TRUE)]

\* The rows one multi-row INSERT of the open transaction adds to the table:
\* ids are generated one after the other, NOW() is the transaction's start.
SeedRowsStored(rows, firstId, start) ==
    [k \in 1..Len(rows) |-> NewRow(rows[k], firstId + k - 1, start, FALSE)]

\* Every row of the statement passes the table's constraints.
SeedRowsAccepted(chk, stored, store) ==
    \A k \in 1..Len(stored) :
        RowAccepted(chk, stored[k], store \o SubSeq(stored, 1, k - 1))

\* seed_resources.sql:13, BEGIN.
SeedBegin ==
    /\ seedPc = "step2"
    /\ seedStart' = clock
    /\ seedPc' = "scholarships"
    /\ UNCHANGED <<seedRuns, resources, nextId, clock, check, lastWrite>>
    /\ UNCHANGED pageVars
    /\ UNCHANGED filterVars
    /\ UNCHANGED matchVars
    /\ UNCHANGED readVars
    /\ UNCHANGED viewVars

\* An INSERT statement that leaves out the rows whose url is stored already.
SeedInsertSkipExisting(at, rows, then) ==
    /\ seedPc = at
    /\ LET new == SelectSeq(SeedPrefix(rows),
                            LAMBDA r : \A k \in 1..Len(resources) :
                                          resources[k].url # r.url)
           stored == SeedRowsStored(new, nextId, seedStart)
       IN /\ resources' = resources \o stored
          /\ nextId' = nextId + Len(stored)
          /\ seedPc' = then
    /\ fresh' = FALSE
    /\ prev' = NoPrev
    /\ UNCHANGED <<seedRuns, clock, check, seedStart, lastWrite>>
    /\ UNCHANGED <<page, status, list, consoleErrors>>
    /\ UNCHANGED filterVars
    /\ UNCHANGED matchVars
    /\ UNCHANGED readVars
    /\ UNCHANGED viewVars

\* One INSERT statement of the transaction: all its rows or, when a row is
\* refused, none and the transaction is aborted.
SeedInsert(at, rows, then) ==
    /\ seedPc = at
    /\ LET stored == SeedRowsStored(SeedPrefix(rows), nextId, seedStart)
       IN IF SeedRowsAccepted(check, stored, resources)
          THEN /\ resources' = resources \o stored
               /\ nextId' = nextId + Len(stored)
               /\ seedPc' = then
          ELSE /\ resources' = SelectSeq(resources, LAMBDA r : r.committed)
               /\ seedPc' = "aborted"
               /\ UNCHANGED nextId
    /\ fresh' = FALSE
    /\ prev' = NoPrev
    /\ UNCHANGED <<seedRuns, clock, check, seedStart, lastWrite>>
    /\ UNCHANGED <<page, status, list, consoleErrors>>
    /\ UNCHANGED filterVars
    /\ UNCHANGED matchVars
    /\ UNCHANGED readVars
    /\ UNCHANGED viewVars

\* seed_resources.sql:16, 173, 253, 316.
SeedInsertScholarships ==
    SeedInsert("scholarships", SeedScholarships, "universities")
SeedInsertUniversities == SeedInsert("universities", SeedUniversities, "visa")
SeedInsertVisa == SeedInsert("visa", SeedVisa, "jobs")
SeedInsertJobs == SeedInsert("jobs", SeedJobs, "commit")

\* seed_resources.sql:417, COMMIT: the rows of the transaction become
\* visible; after an abort COMMIT rolls back.
SeedCommit ==
    /\ seedPc \in {"commit", "aborted"}
    /\ resources' = [k \in 1..Len(resources) |->
                        [resources[k] EXCEPT !.committed = TRUE]]
    /\ seedPc' = "done"
    /\ fresh' = FALSE
    /\ prev' = NoPrev
    /\ UNCHANGED <<seedRuns, nextId, clock, check, seedStart, lastWrite>>
    /\ UNCHANGED <<page, status, list, consoleErrors>>
    /\ UNCHANGED filterVars
    /\ UNCHANGED matchVars
    /\ UNCHANGED readVars
    /\ UNCHANGED viewVars

\* seed_resources.sql is run once more, from its first statement.
SeedAgain ==
    /\ seedPc = "done"
    /\ seedRuns < MaxSeedRuns
    /\ seedPc' = "start"
    /\ UNCHANGED <<seedRuns, resources, nextId, clock, check, seedStart,
                   lastWrite>>
    /\ UNCHANGED pageVars
    /\ UNCHANGED filterVars
    /\ UNCHANGED matchVars
    /\ UNCHANGED readVars
    /\ UNCHANGED viewVars

(*************************** listing queries *******************************)
\* Mutant: the query without its .eq('category', ...) filter.
WhereCategoryAll(store, c) == store

\* .eq('category', c): the stored rows whose category equals c.
WhereCategory(store, c) == SelectSeq(store, LAMBDA r : r.category = c)

\* ORDER BY created_at DESC, NULLS FIRST being the default for DESC:
\* a may be returned before b.
DescNullsFirst(a, b) == a.null \/ (~b.null /\ a.v >= b.v)

IndexOrders(n) ==
    {f \in [1..n -> 1..n] : \A i, j \in 1..n : f[i] = f[j] => i = j}

\* The rows of the given positions in every descending order of created_at:
\* a first row that no other row precedes, then the rest in order.
RECURSIVE DescOrders(_, _)
DescOrders(rows, left) ==
    IF left = {} THEN {<<>>}
    ELSE UNION {{<<rows[i]>> \o rest : rest \in DescOrders(rows, left \ {i})} :
                   i \in {k \in left :
                            \A j \in left : DescNullsFirst(rows[k].created_at,
                                                           rows[j].created_at)}}

\* .order('created_at', { ascending: false }): the orders the store may
\* return the rows in; rows with equal keys come in an unspecified order.
OrderByCreatedAtDesc(rows) == DescOrders(rows, 1..Len(rows))

\* .limit(n) taking the end of the ordered rows instead of the start.
LimitTail(rows, n) ==
    SubSeq(rows, IF Len(rows) < n THEN 1 ELSE Len(rows) - n + 1, Len(rows))

\* .limit(n)
Limit(rows, n) == SubSeq(rows, 1, IF Len(rows) < n THEN Len(rows) ELSE n)

\* The category union of the client's Resource type, lib/supabase.ts as
\* quoted in scripts/README.md:158-173.
ClientCategories == {"scholarship", "visa", "job", "accommodation", "general"}

\* app/page.tsx:10
HomeLimit == 6

\* What supabase-js resolves to: { data, error }, data being null on error.
Failure == [error |-> TRUE, data |-> [isNull |-> TRUE, rows |-> <<>>]]
Success(rows) == [error |-> FALSE, data |-> [isNull |-> FALSE, rows |-> rows]]

\* The rows a query sees: those of committed transactions.
Visible(store) == SelectSeq(store, LAMBDA r : r.committed)

\* from('resources').select('*').order(created_at desc).limit(6),
\* app/page.tsx:6-10.
RecentQuery ==
    {Failure} \cup
    {Success(Limit(r, HomeLimit)) : r \in OrderByCreatedAtDesc(Visible(resources))}

\* from('resources').select('*').eq('category', c).order(created_at desc),
\* scholarships/page.tsx:22-26, jobs/page.tsx:19-23, visa-guide page:19-23.
CategoryQuery(c) ==
    {Failure} \cup
    {Success(r) : r \in OrderByCreatedAtDesc(WhereCategory(Visible(resources), c))}

\* Mutant: data handed on as it is, without `|| []`.
AsIs(data) == IF data.isNull THEN <<data>> ELSE data.rows

\* (data as Resource[]) || []
OrEmpty(data) == IF data.isNull THEN <<>> ELSE data.rows

Pages == {"home", "scholarships", "jobs", "visa"}

\* A page is requested or (re)mounted: useState([]) and a pending fetch.
Mount(p) ==
    /\ p \in Pages
    /\ page' = p
    /\ status' = "loading"
    /\ list' = <<>>
    /\ consoleErrors' = <<>>
    /\ prev' = IF page = p /\ status = "ok" /\ fresh
               THEN [valid |-> TRUE, res |-> list]
               ELSE NoPrev
    /\ fresh' = FALSE
    /\ UNCHANGED storeVars
    /\ UNCHANGED filterVars
    /\ UNCHANGED matchVars
    /\ UNCHANGED readVars
    /\ UNCHANGED viewVars

\* getRecentResources, app/page.tsx:5-18.
getRecentResources ==
    /\ page = "home" /\ status = "loading"
    /\ \E resp \in RecentQuery :
         IF resp.error
         THEN /\ consoleErrors' =
                     Append(consoleErrors, "Error fetching resources:")
              /\ list' = <<>>
              /\ status' = "failed"
              /\ fresh' = FALSE
              /\ prev' = NoPrev
         ELSE /\ list' = resp.data.rows
              /\ status' = "ok"
              /\ fresh' = TRUE
              /\ UNCHANGED <<consoleErrors, prev>>
    /\ UNCHANGED page
    /\ UNCHANGED storeVars
    /\ UNCHANGED filterVars
    /\ UNCHANGED matchVars
    /\ UNCHANGED readVars
    /\ UNCHANGED viewVars

\* fetchScholarships, scholarships/page.tsx:21-34.
fetchScholarships ==
    /\ page = "scholarships" /\ status = "loading"
    /\ \E resp \in CategoryQuery("scholarship") :
         IF resp.error
         THEN /\ consoleErrors' =
                     Append(consoleErrors, "Error fetching scholarships:")
              /\ status' = "failed"
              /\ fresh' = FALSE
              /\ prev' = NoPrev
              /\ UNCHANGED list
         ELSE /\ list' = resp.data.rows
              /\ status' = "ok"
              /\ fresh' = TRUE
              /\ UNCHANGED <<consoleErrors, prev>>
    /\ UNCHANGED page
    /\ UNCHANGED storeVars
    /\ UNCHANGED filterVars
    /\ UNCHANGED matchVars
    /\ UNCHANGED readVars
    /\ UNCHANGED viewVars

\* fetchJobResources, jobs/page.tsx:18-26.
fetchJobResources ==
    /\ page = "jobs" /\ status = "loading"
    /\ \E resp \in CategoryQuery("job") :
         /\ list' = OrEmpty(resp.data)
         /\ status' = IF resp.error THEN "failed" ELSE "ok"
         /\ fresh' = ~resp.error
         /\ prev' = IF resp.error THEN NoPrev ELSE prev
    /\ UNCHANGED <<page, consoleErrors>>
    /\ UNCHANGED storeVars
    /\ UNCHANGED filterVars
    /\ UNCHANGED matchVars
    /\ UNCHANGED readVars
    /\ UNCHANGED viewVars

\* fetchVisaResources, visa-guide page:18-26.
fetchVisaResources ==
    /\ page = "visa" /\ status = "loading"
    /\ \E resp \in CategoryQuery("visa") :
         /\ list' = OrEmpty(resp.data)
         /\ status' = IF resp.error THEN "failed" ELSE "ok"
         /\ fresh' = ~resp.error
         /\ prev' = IF resp.error THEN NoPrev ELSE prev
    /\ UNCHANGED <<page, consoleErrors>>
    /\ UNCHANGED storeVars
    /\ UNCHANGED filterVars
    /\ UNCHANGED matchVars
    /\ UNCHANGED readVars
    /\ UNCHANGED viewVars

(*************************** match_documents ****************************)
\* Numbers of the similarity search are kept in hundredths: One is 1.
One == 100

\* A float8: NULL, NaN or a number.
FNull == [null |-> TRUE, nan |-> FALSE, v |-> 0]
FNaN == [null |-> FALSE, nan |-> TRUE, v |-> 0]
Num(v) == [null |-> FALSE, nan |-> FALSE, v |-> v]

\* A VECTOR value, here with two components, or NULL (schema.sql:27 puts no
\* NOT NULL on the column).
NullVec == [null |-> TRUE, v |-> <<0, 0>>]
Vec(v) == [null |-> FALSE, v |-> v]

Dot(a, b) == a[1] * b[1] + a[2] * b[2]
Norm(a) == CHOOSE r \in 0..(Dot(a, a)) : r * r = Dot(a, a)
Clamp(x) == IF x > One THEN One ELSE IF x < -One THEN -One ELSE x

\* embedding <=> query_embedding: the cosine distance; NULL for a NULL
\* operand, NaN when a vector has norm 0.
CosineDistance(a, b) ==
    IF a.null \/ b.null THEN FNull
    ELSE IF Norm(a.v) = 0 \/ Norm(b.v) = 0 THEN FNaN
    ELSE Num(One - Clamp((One * Dot(a.v, b.v)) \div (Norm(a.v) * Norm(b.v))))

\* 1 - x on float8.
OneMinus(x) == IF x.null THEN FNull ELSE IF x.nan THEN FNaN ELSE Num(One - x.v)

\* schema.sql:56
Similarity(embedding, query_embedding) ==
    OneMinus(CosineDistance(embedding, query_embedding))

\* Mutant: a comparison that lets a NULL similarity through.
FloatGtOrNull(x, t) == x.null \/ x.nan \/ x.v > t

\* Mutant: the threshold compared with >=.
FloatGtOrEqual(x, t) == ~x.null /\ (x.nan \/ x.v >= t)

\* float8 > as the database evaluates it in WHERE: NULL is not true, NaN is
\* greater than every number.
FloatGt(x, t) == ~x.null /\ (x.nan \/ x.v > t)

\* The select list of schema.sql:52-56.
MatchRow(doc, query_embedding) ==
    [id |-> doc.id, content |-> doc.content, metadata |-> doc.metadata,
     similarity |-> Similarity(doc.embedding, query_embedding)]

\* schema.sql:57-58, FROM documents WHERE 1 - (...) > match_threshold.
WhereAboveThreshold(docs, query_embedding, match_threshold) ==
    SelectSeq([k \in 1..Len(docs) |-> MatchRow(docs[k], query_embedding)],
              LAMBDA r : FloatGt(r.similarity, match_threshold))

\* Mutant: a sort that puts the smallest similarity first.
FloatDescAscending(a, b) == b.nan \/ (~a.nan /\ a.v <= b.v)

\* float8 order of ORDER BY ... DESC: NaN sorts above every number.
FloatDesc(a, b) == a.nan \/ (~b.nan /\ a.v >= b.v)

\* schema.sql:59, ORDER BY similarity DESC: the expression is not the
\* distance the ivfflat index of lines 31-32 is built on, so the rows are
\* sorted exactly; rows of equal similarity come in an unspecified order.
OrderBySimilarityDesc(rows) ==
    {[i \in 1..Len(rows) |-> rows[f[i]]] :
        f \in {g \in IndexOrders(Len(rows)) :
                 \A i \in 1..(Len(rows) - 1) :
                     FloatDesc(rows[g[i]].similarity,
                               rows[g[i + 1]].similarity)}}

\* The results the function can return (schema.sql:51-61).
MatchResults(docs, query_embedding, match_threshold, match_count) ==
    {Limit(s, match_count) :
        s \in OrderBySimilarityDesc(
                  WhereAboveThreshold(docs, query_embedding, match_threshold))}

\* No call of match_documents has been made.
MatchIdle ==
    /\ documents = <<>>
    /\ nextDocId = 1
    /\ mQuery = NullVec
    /\ mThreshold = 0
    /\ mCount = 0
    /\ mOut = <<>>
    /\ mPc = "idle"

\* INSERT INTO documents (content, metadata, embedding).
InsertDocument(content, metadata, embedding) ==
    /\ Len(documents) < MaxDocs
    /\ content # NullText
    /\ documents' = Append(documents,
                           [id |-> nextDocId, content |-> content,
                            metadata |-> metadata, embedding |-> embedding])
    /\ nextDocId' = nextDocId + 1
    /\ UNCHANGED <<mQuery, mThreshold, mCount, mOut, mPc>>
    /\ UNCHANGED storeVars
    /\ UNCHANGED pageVars
    /\ UNCHANGED filterVars
    /\ UNCHANGED readVars
    /\ UNCHANGED viewVars

\* SELECT * FROM match_documents(query_embedding, match_threshold,
\* match_count).
match_documents(query_embedding, match_threshold, match_count) ==
    /\ mQuery' = query_embedding
    /\ mThreshold' = match_threshold
    /\ mCount' = match_count
    /\ mOut' \in MatchResults(documents, query_embedding, match_threshold,
                              match_count)
    /\ mPc' = "done"
    /\ UNCHANGED <<documents, nextDocId>>
    /\ UNCHANGED storeVars
    /\ UNCHANGED pageVars
    /\ UNCHANGED filterVars
    /\ UNCHANGED readVars
    /\ UNCHANGED viewVars

(*************************** concurrent reads ***************************)
\* The read requests of the clients.
RecentRead == [kind |-> "recent", category |-> NullText,
               query_embedding |-> NullVec, match_threshold |-> 0,
               match_count |-> 0]
CategoryRead(c) == [kind |-> "category", category |-> c,
                    query_embedding |-> NullVec, match_threshold |-> 0,
                    match_count |-> 0]
MatchRead(q, t, n) == [kind |-> "match", category |-> NullText,
                       query_embedding |-> q, match_threshold |-> t,
                       match_count |-> n]

NoRead == [pc |-> "idle", query |-> RecentRead, result |-> Failure]
NoReaders == readers = [r \in 1..MaxReaders |-> NoRead]

\* A client sends a read request.
ReadSend(r, query) ==
    /\ readers[r].pc \in {"idle", "done"}
    /\ readers' = [readers EXCEPT ![r] =
                      [pc |-> "sent", query |-> query, result |-> Failure]]
    /\ UNCHANGED storeVars
    /\ UNCHANGED pageVars
    /\ UNCHANGED filterVars
    /\ UNCHANGED matchVars
    /\ UNCHANGED viewVars

\* The responses the database can give to a request: one SELECT statement.
Served(query) ==
    CASE query.kind = "recent" -> RecentQuery
      [] query.kind = "category" -> CategoryQuery(query.category)
      [] query.kind = "match" ->
            {Success(rows) :
                rows \in MatchResults(documents, query.query_embedding,
                                      query.match_threshold,
                                      query.match_count)}

\* Mutant: a read that stamps the rows of the table it read.
ReadServeStamping(r) ==
    /\ readers[r].pc = "sent"
    /\ \E resp \in Served(readers[r].query) :
          readers' = [readers EXCEPT ![r].pc = "done", ![r].result = resp]
    /\ resources' = [k \in 1..Len(resources) |->
                        [resources[k] EXCEPT !.last_updated = Ts(clock + 1)]]
    /\ UNCHANGED <<seedRuns, nextId, clock, check, seedPc, seedStart, lastWrite>>
    /\ UNCHANGED pageVars
    /\ UNCHANGED filterVars
    /\ UNCHANGED matchVars
    /\ UNCHANGED viewVars

\* The database answers a request; the queries only SELECT.
ReadServe(r) ==
    /\ readers[r].pc = "sent"
    /\ \E resp \in Served(readers[r].query) :
          readers' = [readers EXCEPT ![r].pc = "done", ![r].result = resp]
    /\ UNCHANGED storeVars
    /\ UNCHANGED pageVars
    /\ UNCHANGED filterVars
    /\ UNCHANGED matchVars
    /\ UNCHANGED viewVars


(*************************** card rendering *****************************)
NoCard == [page |-> "none", metadata |-> MetaNull, tags |-> TagsNull]
NotShown == [threw |-> FALSE, badge |-> <<>>, tagBadges |-> <<>>]
NoTabs == [threw |-> FALSE, all |-> <<>>, undergraduate |-> <<>>,
           graduate |-> <<>>]

\* Nothing has been rendered.
ViewIdle ==
    /\ card = NoCard
    /\ shown = NotShown
    /\ dPc = "idle"
    /\ tabs = NoTabs

\* metadata?.key
OptKey(metadata, key) ==
    IF metadata.t = "object" THEN metadata[key] ELSE JUndefined

\* metadata.key, which throws on null and undefined.
PlainKey(metadata, key) ==
    IF metadata.t \in {"null", "undefined"} THEN JTypeError
    ELSE IF metadata.t = "object" THEN metadata[key]
    ELSE JUndefined

\* The truthiness of a value, as || tests it.
Truthy(v) ==
    CASE v.t \in {"undefined", "null"} -> FALSE
      [] v.t = "string" -> v.s # <<>>
      [] v.t = "number" -> v.s # sZero
      [] v.t = "boolean" -> v.s = strue
      [] OTHER -> TRUE

\* Array.prototype.join(','): null elements give the empty string.
RECURSIVE JoinElems(_)
JoinElems(elems) ==
    IF elems = <<>> THEN <<>>
    ELSE (IF elems[1].t = "null" THEN <<>> ELSE elems[1].s)
            \o (IF Len(elems) > 1 THEN <<",">> ELSE <<>>)
            \o JoinElems(Tail(elems))

\* String(v)
JsString(v) ==
    CASE v.t = "string" -> v.s
      [] v.t \in {"number", "boolean"} -> v.s
      [] v.t = "array" -> JoinElems(v.a)
      [] v.t = "object" -> sObjectObject
      [] v.t = "null" -> <<"n","u","l","l">>
      [] OTHER -> <<"u","n","d","e","f","i","n","e","d">>

\* scholarships/page.tsx:188-190, the level badge.
levelBadge(metadata) ==
    IF OptKey(metadata, "level").t = "string"
    THEN PlainKey(metadata, "level")
    ELSE JStr(sScholarship)

\* jobs/page.tsx:170-176, the type badge.
jobBadge(metadata) ==
    IF OptKey(metadata, "job_type").t = "string"
    THEN PlainKey(metadata, "job_type")
    ELSE IF OptKey(metadata, "resource_type").t = "string"
         THEN PlainKey(metadata, "resource_type")
         ELSE JStr(sJobResource)

\* visa guide page:241-243, String(metadata?.resource_type || 'Official').
visaBadge(metadata) ==
    IF Truthy(OptKey(metadata, "resource_type"))
    THEN JStr(JsString(OptKey(metadata, "resource_type")))
    ELSE JStr(JsString(JStr(sOfficial)))

\* tags.slice(0, 4)
FirstFour(elems) == SubSeq(elems, 1, IF Len(elems) < 4 THEN Len(elems) ELSE 4)

\* scholarships/page.tsx:219-225, the tag badges of the first block.
tagBadgesGuarded(tags) == IF tags.t = "array" THEN FirstFour(tags.a) ELSE <<>>

\* scholarships/page.tsx:226-232, the tag badges of the second block.
tagBadgesChained(tags) ==
    IF tags.t \in {"null", "undefined"} THEN <<>> ELSE FirstFour(tags.a)

\* jobs/page.tsx:182-188, resource.tags?.map(...)
tagBadgesAll(tags) == IF tags.t \in {"null", "undefined"} THEN <<>> ELSE tags.a

\* What a card of the page shows for a resource.
RenderedCard(c) ==
    LET badge == CASE c.page = "scholarships" -> levelBadge(c.metadata)
                   [] c.page = "jobs" -> jobBadge(c.metadata)
                   [] OTHER -> visaBadge(c.metadata)
        badges == CASE c.page = "scholarships" ->
                          tagBadgesGuarded(c.tags) \o tagBadgesChained(c.tags)
                    [] c.page = "jobs" -> tagBadgesAll(c.tags)
                    [] OTHER -> <<>>
    IN IF badge.t = "TypeError"
       THEN [threw |-> TRUE, badge |-> <<>>, tagBadges |-> <<>>]
       ELSE [threw |-> FALSE, badge |-> badge.s, tagBadges |-> badges]

\* scholarships/page.tsx:46-52 and 157-175: the page component renders its
\* three tabs from the scholarships it holds.
RenderTabs ==
    /\ page = "scholarships" /\ status = "ok"
    /\ dPc = "ready"
    /\ tabs' = [threw |-> undergrad(list).threw \/ graduate(list).threw,
                all |-> list,
                undergraduate |-> undergrad(list).rows,
                graduate |-> graduate(list).rows]
    /\ dPc' = "done"
    /\ UNCHANGED <<card, shown>>
    /\ UNCHANGED storeVars
    /\ UNCHANGED pageVars
    /\ UNCHANGED filterVars
    /\ UNCHANGED matchVars
    /\ UNCHANGED readVars

\* React renders the card of one resource.
RenderCard ==
    /\ dPc = "ready"
    /\ shown' = RenderedCard(card)
    /\ dPc' = "done"
    /\ UNCHANGED <<card, tabs>>
    /\ UNCHANGED storeVars
    /\ UNCHANGED pageVars
    /\ UNCHANGED filterVars
    /\ UNCHANGED matchVars
    /\ UNCHANGED readVars

(*************************** specifications ********************************)
UndergradPayload ==
    [tags |-> Tags(<<EStr(sundergraduate)>>),
     metadata |-> MetaObj(JStr(sUndergraduate))]
DoctoralPayload ==
    [tags |-> Tags(<<EStr(sdoctoral), EStr(sfullyfunded)>>),
     metadata |-> MetaObj(JStr(sDoctoralPhD))]
SamplePayload ==
    [tags |-> Tags(<<EStr(sstudypermit)>>), metadata |-> MetaNull]
BarePayload == [tags |-> TagsNull, metadata |-> MetaObj(JUndefined)]

ByDefault == [kind |-> "default", v |-> 0]
ExplicitNull == [kind |-> "null", v |-> 0]
Explicit(t) == [kind |-> "value", v |-> t]

\* A title as the sample rows have one.
SomeTitle == "Canada Student Visa Guide"
EmptyText == ""

\* A url as the sample rows have one.
SomeUrl == "https://www.canada.ca/en/immigration-refugees-citizenship/services/study-canada.html"

\* An INSERT that names category, created_at, tags and metadata and leaves
\* id to its default; the seed and the sample rows all give a title.
Input(c, created, payload) ==
    [id |-> ByDefault, title |-> SomeTitle, url |-> SomeUrl,
     country |-> TextDefault, category |-> c,
     created |-> created, updated |-> ByDefault,
     tags |-> payload.tags, metadata |-> payload.metadata]

\* Rows written while the listing pages are read.
ListingInputs ==
    {Input(cp[1], cr, cp[2]) :
        cp \in {<<"scholarship", UndergradPayload>>,
                <<"scholarship", DoctoralPayload>>,
                <<"visa", SamplePayload>>,
                <<"job", BarePayload>>,
                <<"general", BarePayload>>},
        cr \in {ByDefault, ExplicitNull, Explicit(0)}}

\* Category values offered to the write statements.
WriteCategories == SeedCategories \cup {"blog", NullText}

\* Category values offered to UPDATE: one of schema.sql's list, the one the
\* seed adds, one outside both, and NULL.
UpdateCategories == {"general", "university", "blog", NullText}

WriteInputs ==
    {Input(c, ByDefault, BarePayload) : c \in WriteCategories}

NotRun == [threw |-> FALSE, rows |-> <<>>]

\* schema.sql applied: the table exists, empty, with the CHECK of line 10.
Init ==
    /\ resources = <<>>
    /\ nextId = 1
    /\ clock = 0
    /\ check = Check(SchemaCategories)
    /\ seedPc = "start"
    /\ seedStart = 0
    /\ lastWrite = NoWrite
    /\ page = "none"
    /\ status = "idle"
    /\ list = <<>>
    /\ consoleErrors = <<>>
    /\ fresh = FALSE
    /\ prev = NoPrev
    /\ fIn = <<>>
    /\ fNeedle = sempty
    /\ fOut = NotRun
    /\ fPc = "idle"
    /\ MatchIdle
    /\ NoReaders
    /\ seedRuns = 0
    /\ ViewIdle

\* The listing pages read while rows are inserted.
Next ==
    \/ \E inp \in ListingInputs : Insert(inp)
    \/ Tick
    \/ \E p \in Pages : Mount(p)
    \/ getRecentResources
    \/ fetchScholarships
    \/ fetchJobResources
    \/ fetchVisaResources

Spec == Init /\ [][Next]_vars

\* The write statements and the first step of seed_resources.sql.
NextWrites ==
    \/ \E inp \in WriteInputs : Insert(inp)
    \/ \E i \in 1..MaxRows, c \in UpdateCategories : Update(i, SetCategory(c))
    \/ Tick
    \/ SeedDropConstraint
    \/ SeedAddConstraint
    \/ SeedBegin
    \/ SeedInsertScholarships
    \/ SeedInsertUniversities
    \/ SeedInsertVisa
    \/ SeedInsertJobs
    \/ SeedCommit

SpecWrites == Init /\ [][NextWrites]_vars

\* The ids a client can put in a write: one of its own making, or the id of
\* a row it has read.
KnownIds(store) == {ClientId} \cup {store[k].id : k \in 1..Len(store)}

\* Rows offered to INSERT that differ in id and title.
RowInputs(store) ==
    {[Input("general", ByDefault, BarePayload) EXCEPT !.id = idIn, !.title = t] :
        idIn \in {ByDefault} \cup {Explicit(k) : k \in KnownIds(store)},
        t \in {SomeTitle, EmptyText, NullText}}

\* SET clauses offered to UPDATE.
RowAssignments(store) ==
    {SetId(k) : k \in KnownIds(store)}
        \cup {SetTitle(t) : t \in {SomeTitle, EmptyText, NullText}}
        \cup {SetCategory("visa"), SetCreatedAt(Ts(MaxClock))}

\* Single-row writes on the columns of the resources table.
NextRows ==
    \/ \E inp \in RowInputs(resources) : Insert(inp)
    \/ \E i \in 1..MaxRows, asg \in RowAssignments(resources) : Update(i, asg)
    \/ Tick

SpecRows == Init /\ [][NextRows]_vars

\* Rows offered to INSERT that differ in what they say about country.
CountryInputs ==
    {[Input(c, ByDefault, BarePayload) EXCEPT !.country = given] :
        c \in {"visa", "job", "blog"},
        given \in {TextDefault, TextNull, TextValue("USA")}}

\* Inserts with and without a country.
NextCountry ==
    \/ \E inp \in CountryInputs : Insert(inp)
    \/ Tick

SpecCountry == Init /\ [][NextCountry]_vars

\* Embeddings stored by the writers of the documents table.
Embeddings ==
    {Vec(<<1, 0>>), Vec(<<-1, 0>>), Vec(<<3, 4>>), Vec(<<4, 3>>),
     Vec(<<0, 0>>), NullVec}

\* Arguments offered to match_documents.
Queries == {Vec(<<1, 0>>), Vec(<<3, 4>>), Vec(<<0, 0>>)}
Thresholds == {-One, 0, (8 * One) \div 10}

\* The documents table is filled and then searched once: a call depends on
\* nothing but the table and its arguments.
NextMatch ==
    \/ /\ mPc = "idle"
       /\ \E e \in Embeddings :
             InsertDocument("Study permit basics", MetaNull, e)
    \/ /\ mPc = "idle"
       /\ \E q \in Queries, t \in Thresholds, n \in 0..MaxCount :
             match_documents(q, t, n)

SpecMatch == Init /\ [][NextMatch]_vars

\* schema.sql:64-68, the sample rows: one INSERT, so one created_at.
SampleRow(i, title, url, c, tag) ==
    [id |-> i, title |-> title, url |-> url,
     country |-> TextOf(TextDefault, DefaultCountry),
     category |-> c, created_at |-> Ts(0),
     last_updated |-> Ts(0), tags |-> Tags(<<EStr(tag)>>),
     metadata |-> MetaNull, committed |-> TRUE]

SampleData ==
    <<SampleRow(1, "Lester B. Pearson International Scholarship",
                "https://future.utoronto.ca/pearson/",
                "scholarship", sundergraduate),
      SampleRow(2, "Canada Student Visa Guide",
                "https://www.canada.ca/en/immigration-refugees-citizenship/services/study-canada.html",
                "visa", sstudypermit),
      SampleRow(3, "Part-time Jobs for International Students",
                "https://www.canada.ca/en/immigration-refugees-citizenship/services/study-canada/work.html",
                "job", sparttime)>>

SampleDocuments ==
    <<[id |-> 1, content |-> "Study permit basics", metadata |-> MetaNull,
       embedding |-> Vec(<<1, 0>>)],
      [id |-> 2, content |-> "Working while studying", metadata |-> MetaNull,
       embedding |-> Vec(<<4, 3>>)]>>

ReadQueries ==
    {RecentRead} \cup {CategoryRead(c) : c \in {"scholarship", "job", "visa"}}
        \cup {MatchRead(Vec(<<1, 0>>), t, 1) : t \in {0, (8 * One) \div 10}}

\* schema.sql applied with its sample rows, and some documents stored.
InitReads ==
    /\ resources = SampleData
    /\ nextId = Len(SampleData) + 1
    /\ clock = 0
    /\ check = Check(SchemaCategories)
    /\ seedPc = "start"
    /\ seedStart = 0
    /\ lastWrite = NoWrite
    /\ page = "none"
    /\ status = "idle"
    /\ list = <<>>
    /\ consoleErrors = <<>>
    /\ fresh = FALSE
    /\ prev = NoPrev
    /\ fIn = <<>>
    /\ fNeedle = sempty
    /\ fOut = NotRun
    /\ fPc = "idle"
    /\ documents \in {SubSeq(SampleDocuments, 1, n) :
                         n \in 0..Len(SampleDocuments)}
    /\ nextDocId = Len(documents) + 1
    /\ mQuery = NullVec
    /\ mThreshold = 0
    /\ mCount = 0
    /\ mOut = <<>>
    /\ mPc = "idle"
    /\ NoReaders
    /\ seedRuns = 0
    /\ ViewIdle

\* Clients read concurrently; nobody writes.
NextReads ==
    \/ \E r \in 1..MaxReaders, query \in ReadQueries : ReadSend(r, query)
    \/ \E r \in 1..MaxReaders : ReadServe(r)

SpecReads == InitReads /\ [][NextReads]_vars

\* The categories of the table's CHECK, in the order schema.sql:10 lists them.
CategoryCycle == <<"scholarship", "visa", "job", "accommodation", "general">>

\* A store with more rows than the home page shows: row k was created at
\* k or k + 1 (so neighbours may tie), the first one possibly with
\* created_at NULL, the categories taking turns.
HomeRow(k, late) ==
    [id |-> k, title |-> SomeTitle, url |-> SomeUrl,
     country |-> TextOf(TextDefault, DefaultCountry),
     category |-> CategoryCycle[((k - 1) % Len(CategoryCycle)) + 1],
     created_at |-> IF k = 1 /\ late THEN NullTs
                    ELSE Ts(k + (IF late THEN 1 ELSE 0)),
     last_updated |-> Ts(0), tags |-> Tags(<<>>),
     metadata |-> MetaNull, committed |-> TRUE]

HomeStores ==
    UNION {{[k \in 1..n |-> HomeRow(k, late[k])] : late \in [1..n -> BOOLEAN]} :
              n \in 0..MaxHomeRows}

InitHome ==
    /\ resources \in HomeStores
    /\ nextId = Len(resources) + 1
    /\ clock = 0
    /\ check = Check(SchemaCategories)
    /\ seedPc = "start"
    /\ seedStart = 0
    /\ lastWrite = NoWrite
    /\ page = "none"
    /\ status = "idle"
    /\ list = <<>>
    /\ consoleErrors = <<>>
    /\ fresh = FALSE
    /\ prev = NoPrev
    /\ fIn = <<>>
    /\ fNeedle = sempty
    /\ fOut = NotRun
    /\ fPc = "idle"
    /\ MatchIdle
    /\ NoReaders
    /\ seedRuns = 0
    /\ ViewIdle

\* The home page is loaded, once or again.
NextHome ==
    \/ Mount("home")
    \/ getRecentResources

SpecHome == InitHome /\ [][NextHome]_vars

\* After schema.sql: its sample rows are stored, nothing else has run.
InitReseed ==
    /\ resources = SampleData
    /\ nextId = Len(SampleData) + 1
    /\ clock = 0
    /\ check = Check(SchemaCategories)
    /\ seedPc = "start"
    /\ seedStart = 0
    /\ lastWrite = NoWrite
    /\ page = "none"
    /\ status = "idle"
    /\ list = <<>>
    /\ consoleErrors = <<>>
    /\ fresh = FALSE
    /\ prev = NoPrev
    /\ fIn = <<>>
    /\ fNeedle = sempty
    /\ fOut = NotRun
    /\ fPc = "idle"
    /\ MatchIdle
    /\ NoReaders
    /\ seedRuns = 0
    /\ ViewIdle

\* seed_resources.sql run after schema.sql and run again, while another
\* writer recategorises rows.
NextReseed ==
    \/ SeedDropConstraint
    \/ SeedAddConstraint
    \/ SeedBegin
    \/ SeedInsertScholarships
    \/ SeedInsertUniversities
    \/ SeedInsertVisa
    \/ SeedInsertJobs
    \/ SeedCommit
    \/ SeedAgain
    \/ Tick
    \/ \E i \in 1..MaxRows : Update(i, SetCategory("general"))

SpecReseed == InitReseed /\ [][NextReseed]_vars

\* seed_resources.sql is run on an empty table while the home page is
\* loaded, once.
NextTyped ==
    \/ SeedDropConstraint
    \/ SeedAddConstraint
    \/ SeedBegin
    \/ SeedInsertScholarships
    \/ SeedInsertUniversities
    \/ SeedInsertVisa
    \/ SeedInsertJobs
    \/ SeedCommit
    \/ (status = "idle" /\ Mount("home"))
    \/ getRecentResources

SpecTyped == Init /\ [][NextTyped]_vars

(*************************** the filter on its own *************************)
MaxFilterLen == 2

\* Shapes metadata.level takes: missing, null, number, boolean, object,
\* string, sequence.
LevelShapes ==
    {JUndefined, JNull, JNumber, JBoolean, JObject,
     JStr(sMasters), JStr(sDoctoralPhD),
     JArr(<<EStr(sMasters), EStr(sPhD)>>), JArr(<<ENum, ENull>>)}

MetadataShapes == {MetaNull, MetaNumber} \cup {MetaObj(l) : l \in LevelShapes}

TagsShapes ==
    {TagsNull, Tags(<<EStr(sPhD)>>),
     Tags(<<EStr(sdoctoral), EStr(sfullyfunded)>>)}

Needles == {sPhD, sMasters, sdoctoral, sempty}

FilterRow(i, tg, md) ==
    [id |-> i, title |-> SomeTitle, url |-> SomeUrl,
     country |-> DefaultCountry, category |-> "scholarship",
     created_at |-> Ts(0), last_updated |-> Ts(0),
     tags |-> tg, metadata |-> md, committed |-> TRUE]

InitFilter ==
    /\ resources = <<>>
    /\ nextId = 1
    /\ clock = 0
    /\ check = Check(SchemaCategories)
    /\ seedPc = "start"
    /\ seedStart = 0
    /\ lastWrite = NoWrite
    /\ page = "none"
    /\ status = "idle"
    /\ list = <<>>
    /\ consoleErrors = <<>>
    /\ fresh = FALSE
    /\ prev = NoPrev
    /\ \E n \in 0..MaxFilterLen :
         \E tg \in [1..n -> TagsShapes], md \in [1..n -> MetadataShapes] :
            fIn = [i \in 1..n |-> FilterRow(i, tg[i], md[i])]
    /\ fNeedle \in Needles
    /\ fOut = NotRun
    /\ fPc = "ready"
    /\ MatchIdle
    /\ NoReaders
    /\ seedRuns = 0
    /\ ViewIdle

\* The filter is evaluated on the input.
RunFilter ==
    /\ fPc = "ready"
    /\ fOut' = filterByTagOrLevel(fIn, fNeedle)
    /\ fPc' = "done"
    /\ UNCHANGED <<fIn, fNeedle>>
    /\ UNCHANGED storeVars
    /\ UNCHANGED pageVars
    /\ UNCHANGED matchVars
    /\ UNCHANGED readVars
    /\ UNCHANGED viewVars

NextFilter == RunFilter

SpecFilter == InitFilter /\ [][NextFilter]_vars

\* Values a key of metadata can hold.
FieldShapes ==
    {JUndefined, JNull, JNum(sFive), JNum(sZero), JBool(strue), JObject,
     JArr(<<>>), JStr(sinformation)}

DisplayMetadata ==
    {MetaNull, MetaNumber}
        \cup {MetaKeys(l, jt, rt) :
                 l \in FieldShapes, jt \in FieldShapes, rt \in FieldShapes}

DisplayTags ==
    {TagsNull, Tags(<<>>), Tags(<<EStr(sdoctoral), EStr(sfullyfunded)>>),
     Tags(<<EStr(sdoctoral), EStr(sfullyfunded), EStr(sgovernment),
            EStr(sprestigious), EStr(sresearch)>>)}

CardPages == {"scholarships", "jobs", "visa"}

\* A page is about to render the card of a resource it has loaded.
InitDisplay ==
    /\ resources = <<>>
    /\ nextId = 1
    /\ clock = 0
    /\ check = Check(SchemaCategories)
    /\ seedPc = "start"
    /\ seedStart = 0
    /\ lastWrite = NoWrite
    /\ page = "none"
    /\ status = "idle"
    /\ list = <<>>
    /\ consoleErrors = <<>>
    /\ fresh = FALSE
    /\ prev = NoPrev
    /\ fIn = <<>>
    /\ fNeedle = sempty
    /\ fOut = NotRun
    /\ fPc = "idle"
    /\ MatchIdle
    /\ NoReaders
    /\ seedRuns = 0
    /\ card \in {[page |-> p, metadata |-> md, tags |-> tg] :
                    p \in CardPages, md \in DisplayMetadata, tg \in DisplayTags}
    /\ shown = NotShown
    /\ dPc = "ready"
    /\ tabs = NoTabs

NextDisplay == RenderCard

SpecDisplay == InitDisplay /\ [][NextDisplay]_vars

\* Levels and tags of the scholarships the tabs are rendered from.
TabLevels ==
    {JUndefined, JNumber, JStr(sUndergraduate), JStr(sundergraduate),
     JStr(sUGMastersPhD), JStr(sDoctoralPhD),
     JArr(<<EStr(sUndergraduate)>>), JArr(<<EStr(sMasters), EStr(sPhD)>>)}

TabMetadata == {MetaNull} \cup {MetaObj(l) : l \in TabLevels}

TabTags ==
    {TagsNull, Tags(<<EStr(sundergraduate), EStr(sfullyfunded)>>),
     Tags(<<EStr(sUndergraduate)>>), Tags(<<EStr(sfullyfunded), EStr(sgraduate)>>),
     Tags(<<EStr(sdoctoral), EStr(sfullyfunded)>>)}

\* The scholarships page has loaded its list and is about to render.
InitTabs ==
    /\ resources = <<>>
    /\ nextId = 1
    /\ clock = 0
    /\ check = Check(SchemaCategories)
    /\ seedPc = "start"
    /\ seedStart = 0
    /\ lastWrite = NoWrite
    /\ page = "scholarships"
    /\ status = "ok"
    /\ \E n \in 0..MaxTabRows :
         \E tg \in [1..n -> TabTags], md \in [1..n -> TabMetadata] :
            list = [i \in 1..n |-> FilterRow(i, tg[i], md[i])]
    /\ consoleErrors = <<>>
    /\ fresh = FALSE
    /\ prev = NoPrev
    /\ fIn = <<>>
    /\ fNeedle = sempty
    /\ fOut = NotRun
    /\ fPc = "idle"
    /\ MatchIdle
    /\ NoReaders
    /\ seedRuns = 0
    /\ card = NoCard
    /\ shown = NotShown
    /\ dPc = "ready"
    /\ tabs = NoTabs

NextTabs == RenderTabs

SpecTabs == InitTabs /\ [][NextTabs]_vars

(*************************** properties ************************************)
InSeq(x, seq) == \E i \in 1..Len(seq) : seq[i] = x

\* The category each listing page is about.
PageCategory(p) ==
    CASE p = "scholarships" -> "scholarship"
      [] p = "jobs" -> "job"
      [] p = "visa" -> "visa"

CategoryPages == {"scholarships", "jobs", "visa"}

\* C1: a category page that has just loaded shows exactly the stored
\* resources of its category: none of another category, none of its own
\* category left out, none twice.
C1_CategoryListingExact ==
    (status = "ok" /\ fresh /\ page \in CategoryPages) =>
        /\ \A i \in 1..Len(list) :
              /\ list[i].category = PageCategory(page)
              /\ InSeq(list[i], resources)
        /\ \A j \in 1..Len(resources) :
              resources[j].category = PageCategory(page) =>
                  InSeq(resources[j], list)
        /\ \A i, k \in 1..Len(list) : list[i].id = list[k].id => i = k

C1_Witness ==
    /\ status = "ok" /\ fresh /\ page = "jobs"
    /\ Len(list) = 1
    /\ Len(resources) = 2

\* A timestamp comparison is true only between two timestamps.
TsGeq(a, b) == ~a.null /\ ~b.null /\ a.v >= b.v

\* C2: in every sequence a listing query returned, created_at is
\* non-increasing across each pair of consecutive elements.
C2_CreatedAtNonIncreasing ==
    status = "ok" =>
        \A i \in 1..(Len(list) - 1) :
            TsGeq(list[i].created_at, list[i + 1].created_at)

\* C3: returned resources with equal created_at come in insertion order.
C3_TiesInInsertionOrder ==
    status = "ok" =>
        \A i, j \in 1..Len(list) :
            (/\ i < j
             /\ ~list[i].created_at.null
             /\ list[i].created_at = list[j].created_at)
                => list[i].id < list[j].id

\* C4: the same listing query run twice with no write in between gives the
\* same resources in the same order.
C4_RequeryIdentical == (status = "ok" /\ prev.valid) => list = prev.res

\* C5: when the store query fails, the list handed to rendering is empty.
C5_FailureGivesEmptyList == status = "failed" => list = <<>>

C5_Witness ==
    /\ status = "failed" /\ page = "scholarships"
    /\ \E j \in 1..Len(resources) : resources[j].category = "scholarship"

\* C6: a failed store query is logged on every listing path.
C6_FailureIsLogged == status = "failed" => Len(consoleErrors) > 0

\* needle = pre \o needle \o post for some split of str.
IsSubstring(needle, str) ==
    \E i \in 0..Len(str) : \E j \in i..Len(str) :
        str = SubSeq(str, 1, i) \o needle \o SubSeq(str, j + 1, Len(str))

IsElement(needle, field) ==
    field.t = "array" /\ \E k \in 1..Len(field.a) : field.a[k] = EStr(needle)

\* The level of a resource, absent when metadata is not an object.
LevelOf(r) == IF r.metadata.t = "object" THEN r.metadata.level ELSE JUndefined

\* What the specification asks of a resource for it to be kept.
Wanted(r, needle) ==
    \/ LevelOf(r).t = "string" /\ IsSubstring(needle, LevelOf(r).s)
    \/ IsElement(needle, LevelOf(r))
    \/ IsElement(needle, r.tags)

\* C7: the filter returns exactly the wanted resources, in input order.
C7_FilterIsWantedSubsequence ==
    fPc = "done" =>
        LET idx == {i \in 1..Len(fIn) : Wanted(fIn[i], fNeedle)}
        IN /\ Len(fOut.rows) = Cardinality(idx)
           /\ \A i \in idx :
                  fOut.rows[Cardinality({j \in idx : j <= i})] = fIn[i]

C7_Witness ==
    /\ fPc = "done" /\ fNeedle = sPhD /\ Len(fIn) = 2
    /\ fIn[1].metadata = MetaObj(JStr(sMasters)) /\ fIn[1].tags = TagsNull
    /\ fIn[2].metadata = MetaObj(JArr(<<EStr(sMasters), EStr(sPhD)>>))
    /\ fOut.rows = <<fIn[2]>>

\* C8: evaluating the filter never throws, whatever the shape of metadata and
\* tags, and a resource whose level is neither a string nor a sequence is
\* kept only when the needle is one of its tags.
C8_FilterIsTotal ==
    fPc = "done" =>
        /\ ~fOut.threw
        /\ \A i \in 1..Len(fIn) :
              (/\ LevelOf(fIn[i]).t \notin {"string", "array"}
               /\ ~IsElement(fNeedle, fIn[i].tags))
                  => ~InSeq(fIn[i], fOut.rows)

C8_Witness ==
    /\ fPc = "done" /\ Len(fIn) = 2 /\ ~fOut.threw
    /\ fIn[1].metadata = MetaNull /\ fIn[1].tags = TagsNull
    /\ fIn[2].metadata = MetaObj(JNumber)
    /\ fIn[2].tags = Tags(<<EStr(sPhD)>>) /\ fNeedle = sPhD
    /\ fOut.rows = <<fIn[2]>>

\* The resource of the end-to-end scenario.
IsScenarioRow(r) ==
    /\ r.category = "scholarship"
    /\ r.tags = Tags(<<EStr(sundergraduate)>>)
    /\ r.metadata = MetaObj(JStr(sUndergraduate))

\* C9: once the scenario resource is stored, the next scholarship listing
\* has it, so do the "undergraduate" filter and the Undergraduate tab, and
\* the "doctoral" filter and the Graduate tab do not.
C9_EndToEnd ==
    (status = "ok" /\ fresh /\ page = "scholarships") =>
        \A j \in 1..Len(resources) :
            IsScenarioRow(resources[j]) =>
                /\ InSeq(resources[j], list)
                /\ InSeq(resources[j],
                         filterByTagOrLevel(list, sundergraduate).rows)
                /\ InSeq(resources[j], undergrad(list).rows)
                /\ ~InSeq(resources[j],
                          filterByTagOrLevel(list, sdoctoral).rows)
                /\ ~InSeq(resources[j], graduate(list).rows)

C9_Witness ==
    /\ status = "ok" /\ fresh /\ page = "scholarships"
    /\ Len(list) = 2
    /\ \E i \in 1..2 : IsScenarioRow(list[i])
    /\ Len(graduate(list).rows) = 1
    /\ Len(undergrad(list).rows) = 1

\* C10: a write is accepted exactly when its category is one of scholarship,
\* visa, job, accommodation, general, university; a rejected write leaves
\* the store unchanged.
C10_WriteValidation ==
    [][(/\ lastWrite'.op # "none"
        /\ <<resources, lastWrite>>' # <<resources, lastWrite>>)
          => /\ lastWrite'.accepted <=> lastWrite'.category \in SeedCategories
             /\ ~lastWrite'.accepted => resources' = resources]_vars

\* C11: while schema.sql and seed_resources.sql are applied and other
\* writers write, every stored resource has a category of the enumeration
\* and the category check is in force.
C11_CategoryCheckAlwaysInForce ==
    /\ check.inForce
    /\ \A i \in 1..Len(resources) : resources[i].category \in SeedCategories

\* C12: a resource inserted later never has a created_at smaller than a
\* resource inserted earlier.
C12_CreatedAtFollowsInsertion ==
    \A i, j \in 1..Len(resources) :
        i < j => TsGeq(resources[j].created_at, resources[i].created_at)

UniqueIds(store) ==
    \A i, j \in 1..Len(store) : store[i].id = store[j].id => i = j

\* The last write would have put its id on a second row.
DuplicatesAnId(store, w) ==
    \E k \in 1..Len(store) :
        /\ store[k].id = w.id
        /\ w.op = "insert" \/ k # w.target

\* C13: after every insert and update no two stored resources have the same
\* id, and a write that would give an existing id to a second resource is
\* rejected and leaves the store unchanged.
C13_IdsUnique ==
    [][/\ UniqueIds(resources')
       /\ (lastWrite' # lastWrite /\ DuplicatesAnId(resources, lastWrite'))
            => ~lastWrite'.accepted /\ resources' = resources]_vars

C13_Witness ==
    /\ lastWrite.op \in {"insert", "update"}
    /\ ~lastWrite.accepted
    /\ lastWrite.title # NullText
    /\ lastWrite.category \in SchemaCategories
    /\ DuplicatesAnId(resources, lastWrite)
    /\ Len(resources) = 2

\* C14: an update of a resource leaves its id and its created_at as they
\* were at insertion.
C14_IdAndCreatedAtImmutable ==
    [][\A i \in 1..Len(resources) :
          /\ resources'[i].id = resources[i].id
          /\ resources'[i].created_at = resources[i].created_at]_vars

ContentChanged(old, new) ==
    \/ old.title # new.title
    \/ old.category # new.category
    \/ old.tags # new.tags
    \/ old.metadata # new.metadata

\* C15: an update that changes a content attribute of a resource leaves the
\* time of the update in its last_updated.
C15_LastUpdatedRefreshed ==
    [][\A i \in 1..Len(resources) :
          ContentChanged(resources[i], resources'[i])
              => resources'[i].last_updated = Ts(clock)]_vars

\* C16: every stored resource has a title that is neither missing nor the
\* empty string.
C16_TitleNonEmpty ==
    \A i \in 1..Len(resources) :
        resources[i].title # NullText /\ resources[i].title # EmptyText

\* x is a number or NaN that the database orders above t.
Above(x, t) == ~x.null /\ (x.nan \/ x.v > t)

SimilarityOf(doc) == Similarity(doc.embedding, mQuery)

\* C17: match_documents returns at most match_count rows, each with a
\* similarity strictly greater than match_threshold and none at or below
\* it, and returns the empty sequence when no document qualifies.
C17_MatchBounded ==
    mPc = "done" =>
        /\ Len(mOut) <= mCount
        /\ \A k \in 1..Len(mOut) :
              /\ Above(mOut[k].similarity, mThreshold)
              /\ ~(~mOut[k].similarity.nan /\ mOut[k].similarity.v <= mThreshold)
        /\ (\A d \in 1..Len(documents) :
               ~Above(SimilarityOf(documents[d]), mThreshold))
              => mOut = <<>>

C17_Witness ==
    /\ mPc = "done"
    /\ mThreshold = (8 * One) \div 10
    /\ mCount = 2
    /\ Len(mOut) = 2
    /\ \E d \in 1..Len(documents) :
          SimilarityOf(documents[d]) = Num(mThreshold)

\* a does not sort below b in the order of float8.
NotBelow(a, b) == a.nan \/ (~b.nan /\ a.v >= b.v)

Returned17(doc) == \E k \in 1..Len(mOut) : mOut[k].id = doc.id

\* C18: the rows come in non-increasing similarity, and no document left
\* out has a similarity above the threshold that is strictly greater than
\* the similarity of a returned row.
C18_MatchTopInOrder ==
    mPc = "done" =>
        /\ \A k \in 1..(Len(mOut) - 1) :
              NotBelow(mOut[k].similarity, mOut[k + 1].similarity)
        /\ \A d \in 1..Len(documents) :
              (~Returned17(documents[d])
                  /\ Above(SimilarityOf(documents[d]), mThreshold))
                 => \A k \in 1..Len(mOut) :
                       NotBelow(mOut[k].similarity,
                                SimilarityOf(documents[d]))

C18_Witness ==
    /\ mPc = "done"
    /\ Len(mOut) = 2
    /\ mOut[1].similarity # mOut[2].similarity
    /\ \E d \in 1..Len(documents) :
          /\ ~Returned17(documents[d])
          /\ Above(SimilarityOf(documents[d]), mThreshold)
          /\ SimilarityOf(documents[d]) # mOut[2].similarity

\* C19: every row match_documents returns has a similarity within [0,1].
C19_SimilarityInUnitInterval ==
    mPc = "done" =>
        \A k \in 1..Len(mOut) :
            /\ ~mOut[k].similarity.null
            /\ ~mOut[k].similarity.nan
            /\ mOut[k].similarity.v >= 0
            /\ mOut[k].similarity.v <= One

\* The responses to a request run alone on the given tables.
Alone(query, store, docs) ==
    CASE query.kind = "recent" ->
            {Failure} \cup
            {Success(Limit(o, HomeLimit)) : o \in OrderByCreatedAtDesc(store)}
      [] query.kind = "category" ->
            {Failure} \cup
            {Success(o) :
                o \in OrderByCreatedAtDesc(
                          SelectSeq(store,
                                    LAMBDA x : x.category = query.category))}
      [] query.kind = "match" ->
            {Success(o) :
                o \in MatchResults(docs, query.query_embedding,
                                   query.match_threshold, query.match_count)}

Displayed(p) ==
    CASE p = "scholarships" -> {"level"}
      [] p = "jobs" -> {"job_type", "resource_type"}
      [] OTHER -> {"resource_type"}

DefaultLabel(p) ==
    CASE p = "scholarships" -> sScholarship
      [] p = "jobs" -> sJobResource
      [] OTHER -> sOfficial

FieldOf(metadata, key) ==
    IF metadata.t = "object" THEN metadata[key] ELSE JUndefined

\* C21: rendering a card does not fail, and when every metadata field the
\* page displays has an unexpected shape (anything but a string, or
\* metadata missing) the card shows the page's default label.
C21_MalformedMetadataIsAbsent ==
    dPc = "done" =>
        /\ ~shown.threw
        /\ (\A k \in Displayed(card.page) :
               FieldOf(card.metadata, k).t # "string")
              => shown.badge = DefaultLabel(card.page)

\* C25: a scholarship card shows each of the first four tags of the
\* resource exactly once, in stored order.
C25_TagsRenderedOnce ==
    (dPc = "done" /\ card.page = "scholarships") =>
        shown.tagBadges =
            (IF card.tags.t = "array"
             THEN SubSeq(card.tags.a, 1,
                         IF Len(card.tags.a) < 4 THEN Len(card.tags.a) ELSE 4)
             ELSE <<>>)

\* The resource with its tags in the order f.
TagsPermuted(r, f) ==
    [r EXCEPT !.tags.a = [k \in 1..Len(r.tags.a) |-> r.tags.a[f[k]]]]

TagOrders(r) ==
    IF r.tags.t = "array" THEN IndexOrders(Len(r.tags.a)) ELSE {<<>>}

TabNeedles == {sundergraduate, sgraduate, sdoctoral, sfullyfunded, sPhD}

\* C22: whatever the order of a resource's tags, the resource is in the
\* Undergraduate tab, in the Graduate tab and in the result of the
\* tag/level filter exactly when it is with the tags as stored.
C22_TagOrderIrrelevant ==
    dPc = "done" =>
        \A i \in 1..Len(list) : \A f \in TagOrders(list[i]) :
            LET r == list[i]
                q == IF r.tags.t = "array" THEN TagsPermuted(r, f) ELSE r
            IN /\ InSeq(r, tabs.undergraduate) <=> undergrad(<<q>>).rows # <<>>
               /\ InSeq(r, tabs.graduate) <=> graduate(<<q>>).rows # <<>>
               /\ \A needle \in TabNeedles :
                     filterByTagOrLevel(<<q>>, needle).rows # <<>>
                        <=> filterByTagOrLevel(<<r>>, needle).rows # <<>>

C22_Witness ==
    /\ dPc = "done"
    /\ Len(list) = 2
    /\ list[1].tags = Tags(<<EStr(sfullyfunded), EStr(sgraduate)>>)
    /\ list[1].metadata = MetaNull
    /\ list[2].tags = Tags(<<EStr(sdoctoral), EStr(sfullyfunded)>>)
    /\ list[2].metadata = MetaNull
    /\ tabs.graduate = list
    /\ tabs.undergraduate = <<>>

\* The level matches the needle: a substring of a string level, an element
\* of a sequence level.
LevelMatches(r, needle) ==
    \/ LevelOf(r).t = "string" /\ IsSubstring(needle, LevelOf(r).s)
    \/ IsElement(needle, LevelOf(r))

InUndergraduate(r) ==
    LevelMatches(r, sUndergraduate) \/ IsElement(sundergraduate, r.tags)

InGraduate(r) ==
    \/ LevelMatches(r, sMasters) \/ LevelMatches(r, sPhD)
    \/ IsElement(sgraduate, r.tags) \/ IsElement(sdoctoral, r.tags)

\* C26: the Undergraduate tab holds exactly the scholarships whose level
\* matches "Undergraduate" or whose tags contain "undergraduate", the
\* Graduate tab those whose level matches "Masters" or "PhD" or whose tags
\* contain "graduate" or "doctoral", both in the order of the All list, and
\* neither has more entries than All.
C26_TabsAreExactSubsequences ==
    dPc = "done" =>
        /\ ~tabs.threw
        /\ tabs.all = list
        /\ tabs.undergraduate = SelectSeq(list, InUndergraduate)
        /\ tabs.graduate = SelectSeq(list, InGraduate)
        /\ Len(tabs.undergraduate) <= Len(tabs.all)
        /\ Len(tabs.graduate) <= Len(tabs.all)

C26_Witness ==
    /\ dPc = "done"
    /\ Len(list) = 2
    /\ list[1].metadata = MetaObj(JStr(sundergraduate))
    /\ list[1].tags = Tags(<<EStr(sUndergraduate)>>)
    /\ list[2].metadata = MetaObj(JStr(sUGMastersPhD))
    /\ list[2].tags = TagsNull
    /\ tabs.undergraduate = <<list[2]>>
    /\ tabs.graduate = <<list[2]>>

\* C23: a resource inserted without a country value is stored with country
\* "Canada".
C23_CountryDefaultsToCanada ==
    [][\A inp \in CountryInputs :
          (/\ Insert(inp)
           /\ inp.country.kind = "default"
           /\ Len(resources') = Len(resources) + 1)
             => resources'[Len(resources')].country = "Canada"]_vars

C23_Witness ==
    /\ Len(resources) = 2
    /\ resources[1].country = "USA"
    /\ resources[2].country = "Canada"
    /\ lastWrite.op = "insert" /\ lastWrite.accepted

\* A timestamp is later than another only if both are timestamps.
TsGt(a, b) == ~a.null /\ ~b.null /\ a.v > b.v

Smaller(a, b) == IF a < b THEN a ELSE b

\* C24: the home page receives at most 6 resources, taken from the rows of
\* every category (as many as the store has, up to 6, none twice), and no
\* stored resource it did not receive has a created_at strictly greater
\* than one it received.
C24_HomeShowsNewestSix ==
    (page = "home" /\ status = "ok" /\ fresh) =>
        /\ Len(list) <= 6
        /\ Len(list) = Smaller(6, Len(Visible(resources)))
        /\ \A i \in 1..Len(list) : InSeq(list[i], Visible(resources))
        /\ \A i, k \in 1..Len(list) : list[i].id = list[k].id => i = k
        /\ \A j \in 1..Len(resources) :
              ~InSeq(resources[j], list) =>
                  \A i \in 1..Len(list) :
                      ~TsGt(resources[j].created_at, list[i].created_at)

C24_Witness ==
    /\ page = "home" /\ status = "ok" /\ fresh
    /\ Len(resources) = 7
    /\ Len(list) = 6
    /\ Cardinality({list[i].category : i \in 1..Len(list)}) = 5
    /\ \E j \in 1..Len(resources) :
          /\ ~InSeq(resources[j], list)
          /\ \A i \in 1..Len(list) :
                TsGt(list[i].created_at, resources[j].created_at)

\* The rows the seed transaction inserts, statement after statement.
SeedAllRows ==
    SeedPrefix(SeedScholarships) \o SeedPrefix(SeedUniversities)
        \o SeedPrefix(SeedVisa) \o SeedPrefix(SeedJobs)

SeedUrls == {SeedAllRows[k].url : k \in 1..Len(SeedAllRows)}

\* The seed rows a query can see.
SeedRowsSeen == SelectSeq(Visible(resources), LAMBDA r : r.url \in SeedUrls)

\* C27: the seed's inserts are all-or-nothing: at every moment a reader sees
\* either none of the seed rows or all of them, and once the script has
\* ended the store holds either all of them or none, with no row of an
\* unfinished transaction left.
C27_SeedAllOrNothing ==
    /\ Len(SeedRowsSeen) \in {0, Len(SeedAllRows)}
    /\ Len(SeedRowsSeen) = Len(SeedAllRows) =>
          {SeedRowsSeen[k].url : k \in 1..Len(SeedRowsSeen)} = SeedUrls
    /\ seedPc = "done" =>
          /\ \A k \in 1..Len(resources) : resources[k].committed
          /\ Len(SelectSeq(resources, LAMBDA r : r.url \in SeedUrls))
                \in {0, Len(SeedAllRows)}

C27_Witness ==
    /\ seedPc = "done"
    /\ Len(SeedRowsSeen) = Len(SeedAllRows)
    /\ Len(resources) > Len(SeedAllRows)

\* The stored rows that carry a title and a url.
RowsOf(title, url) ==
    {j \in 1..Len(resources) :
        /\ resources[j].committed
        /\ resources[j].title = title
        /\ resources[j].url = url}

\* How many rows of the sample data carry a title and a url.
SampleRowsOf(title, url) ==
    Cardinality({j \in 1..Len(SampleData) :
                    SampleData[j].title = title /\ SampleData[j].url = url})

PearsonUrl == "https://future.utoronto.ca/pearson/"

\* A statement of the seed script has run.
SeedStep == seedPc' # seedPc

\* C28: a run of seed_resources.sql changes no row that was stored before
\* it, and when a run has ended every seed row is stored once per run, each
\* copy under an id of its own; run after schema.sql, it leaves two rows
\* for the Lester B. Pearson scholarship with the same url.
C28_ReseedDuplicates ==
    /\ [](/\ \A i, j \in 1..Len(resources) :
               resources[i].id = resources[j].id => i = j
          /\ seedPc = "done" =>
               /\ \A k \in 1..Len(SeedAllRows) :
                     Cardinality(RowsOf(SeedAllRows[k].title,
                                        SeedAllRows[k].url))
                        = seedRuns + SampleRowsOf(SeedAllRows[k].title,
                                                  SeedAllRows[k].url)
               /\ Len(resources) = Len(SampleData)
                                      + seedRuns * Len(SeedAllRows)
               /\ Cardinality({j \in 1..Len(resources) :
                                  resources[j].url = PearsonUrl})
                     = seedRuns + 1)
    /\ [][SeedStep =>
            /\ Len(resources') >= Len(resources)
            /\ \A k \in 1..Len(resources) :
                  resources[k].committed => resources'[k] = resources[k]]_vars

C28_Witness ==
    /\ seedPc = "done"
    /\ seedRuns = 2
    /\ Len(resources) = Len(SampleData) + 2 * Len(SeedAllRows)
    /\ Cardinality({j \in 1..Len(resources) :
                       /\ resources[j].url = PearsonUrl
                       /\ resources[j].committed}) = 3

\* C29: every resource a page has received has a category the client's
\* Resource type declares.
C29_CategoriesWithinClientType ==
    status = "ok" =>
        \A k \in 1..Len(list) : list[k].category \in ClientCategories

\* C30: a document stored without an embedding is in the result of no call
\* of match_documents.
C30_NoEmbeddingNeverMatched ==
    mPc = "done" =>
        \A d \in 1..Len(documents) :
            documents[d].embedding.null => ~Returned17(documents[d])

C30_Witness ==
    /\ mPc = "done"
    /\ mThreshold = -One
    /\ mCount = 2
    /\ Len(mOut) = 1
    /\ Len(documents) = 2
    /\ \E d \in 1..Len(documents) : documents[d].embedding.null

====
